---- MODULE Spec2Model ----
(***************************************************************************)
(* PipelineManager (deeppavlov/pipeline_manager/pipeline_manager_parallel) *)
(* as a state machine: construction (prepare_multiprocess), the worker     *)
(* pool of run(), the ingestion loop of update_logger() and the retention  *)
(* loop at the end of run().                                               *)
(***************************************************************************)
EXTENDS Integers, Sequences, FiniteSets, TLC

\* ---------------------------------------------------------------- bounds
\* Largest number of pipelines the generator yields in one run.
NumJobs == 3
\* Number of GPU devices of the host (indices 0 .. NumGpus-1).
NumGpus == 2
\* Largest number of CPUs of the host.
MaxCpu == 3
\* Largest 'max_num_workers' argument a caller passes.
MaxWorkersArg == 3
\* Largest metric value a job reports (values are integers standing for
\* the ordered metric scores; the smallest one is -1).
MaxScore == 1

\* ------------------------------------------------------------- encodings
\* Python's None where an integer is expected (max_num_workers, best_ind).
None == -1
\* Python's None where a list is expected (available_gpu).
NoneList == <<None>>
\* CUDA_VISIBLE_DEVICES == '' (no device visible).
NoDevice == -2
\* CUDA_VISIBLE_DEVICES absent from the environment of a worker process.
Unset == -3

Datasets == {"A", "B"}
\* The parts of a dataset (the keys of self.dataset_composition).
Splits == {"train", "valid", "test"}
Scores == (-1)..MaxScore
GpuIds == 0..(NumGpus - 1)

Min(a, b) == IF a < b THEN a ELSE b

RECURSIVE SetToSeq(_)
\* The elements of a set of integers in ascending order.
SetToSeq(S) ==
    IF S = {} THEN <<>>
    ELSE LET m == CHOOSE x \in S : \A y \in S : x <= y
         IN <<m>> \o SetToSeq(S \ {m})

RECURSIVE SelectSeqIn(_, _)
\* The elements of sequence s that are in set S, in s's order.
SelectSeqIn(s, S) ==
    IF s = <<>> THEN <<>>
    ELSE (IF Head(s) \in S THEN <<Head(s)>> ELSE <<>>) \o SelectSeqIn(Tail(s), S)

\* s[0:n] of a Python list.
Prefix(s, n) == SubSeq(s, 1, Min(n, Len(s)))

\* Explicit GPU lists a caller may pass ([] and None behave alike: both falsy).
GpuLists ==
    {<<>>} \cup {<<g>> : g \in GpuIds}
           \cup {<<g, h>> : <<g, h>> \in {p \in GpuIds \X GpuIds : p[1] # p[2]}}

VARIABLES
    args,            \* constructor arguments
    host,            \* cpu_count() and the idle GPUs of the host
    trainer,         \* the metric values and splits the Trainer may report,
                     \* whether jobs may raise, the jobs that never end
    jobs,            \* the configs the pipeline generator yields, in order
    pc,              \* position of the driving process
    max_num_workers_,\* self.max_num_workers_
    max_num_workers, \* self.max_num_workers
    available_gpu,   \* self.available_gpu
    warnings,        \* warnings printed by prepare_multiprocess
    target_metric,   \* self.target_metric
    tasks,           \* the argument tuples handed to imap_unordered
    next_task,       \* number of tasks already taken by a worker
    running,         \* job index -> CUDA_VISIBLE_DEVICES of its worker
    pipes_results,   \* results in completion order
    i,               \* loop index of update_logger
    dataset_res,     \* update_logger's dataset_res, in key insertion order
    log,             \* records written by logger.write()
    work,            \* dataset -> entries of <save_path>/<dataset>
    best,            \* dataset -> entries of <save_path>/<dataset>_best_pipe
    log_saved,       \* number of logger.save() calls
    retained,        \* number of dataset_res keys already processed by run()
    exit_env,        \* job index -> CUDA_VISIBLE_DEVICES of its worker at exit
    data,            \* dataset -> the splits of its data that are not empty
    dataset_composition \* self.dataset_composition

vars == <<args, host, trainer, jobs, pc, max_num_workers_, max_num_workers,
          available_gpu, warnings, target_metric, tasks, next_task, running,
          pipes_results, i, dataset_res, log, work, best, log_saved, retained,
          exit_env, data, dataset_composition>>

\* --------------------------------------------------- external collaborators
\* psutil.cpu_count()
cpu_count == host.cpu

\* utils.get_num_gpu(): the number of GPU devices of the host.
get_num_gpu == NumGpus

\* utils.get_available_gpus(num_gpus): the idle GPU indices in ascending
\* order, at most num_gpus of them when num_gpus is given.
get_available_gpus(num_gpus) ==
    IF num_gpus = None THEN SetToSeq(host.idle)
    ELSE Prefix(SetToSeq(host.idle), num_gpus)

\* utils.check_gpu_available(ind)
check_gpu_available(ind) == ind \in host.idle

\* multiprocessing.Pool(processes): None means os.cpu_count() workers,
\* fewer than one raises ValueError (0 here stands for that failure).
PoolSize(processes) ==
    IF processes = None THEN cpu_count
    ELSE IF processes < 1 THEN 0
    ELSE processes

\* ------------------------------------------------------ prepare_multiprocess
\* int(cpu_count() * 0.7)
CpuShare == (7 * cpu_count) \div 10

\* A request passed on without the clamp.
NoClamp(mw) == mw

\* Lines 140-144: 'max_num_workers' above the CPU count is clamped, with a
\* warning.
ClampToCpu(mw) ==
    IF mw # None /\ mw > cpu_count THEN cpu_count ELSE mw

\* A filter that keeps the busy indices too.
AllOf(gpus) == gpus

\* Lines 167-172: the idle indices of use_multi_gpus, in list order.
IdleOf(gpus) == SelectSeqIn(gpus, host.idle)

\* Lines 170-172: one warning per busy index of use_multi_gpus.
BusyWarnings(gpus) ==
    [k \in 1..Len(SelectSeqIn(gpus, GpuIds \ host.idle)) |->
        [kind |-> "busy", ind |-> SelectSeqIn(gpus, GpuIds \ host.idle)[k]]]

\* The whole of prepare_multiprocess: the fields it leaves on self, and
\* whether it raised ValueError.
prepare_multiprocess ==
    LET mw_  == ClampToCpu(args.max_num_workers)
        wcpu == IF mw_ # args.max_num_workers
                THEN <<[kind |-> "cpu", ind |-> cpu_count]>> ELSE <<>>
        base == [raised |-> FALSE, mw_ |-> mw_, mw |-> None,
                 gpu |-> NoneList, warn |-> wcpu]
    IN IF args.use_all_gpus
       THEN IF args.use_multi_gpus # <<>>
            THEN [base EXCEPT !.raised = TRUE]
            ELSE IF mw_ = None
                 THEN [base EXCEPT
                         !.gpu = get_available_gpus(None),
                         !.mw = IF CpuShare > Len(get_available_gpus(None))
                                THEN Len(get_available_gpus(None))
                                ELSE CpuShare]
                 ELSE IF mw_ > get_num_gpu
                      THEN [base EXCEPT !.mw = get_num_gpu,
                                        !.gpu = get_available_gpus(None)]
                      ELSE [base EXCEPT !.gpu = get_available_gpus(mw_)]
       ELSE IF args.use_multi_gpus # <<>>
            THEN LET avail == IdleOf(args.use_multi_gpus)
                     warn  == wcpu \o BusyWarnings(args.use_multi_gpus)
                 IN IF mw_ = None \/ mw_ = 0
                    THEN [base EXCEPT !.mw = Len(avail), !.gpu = avail,
                                      !.warn = warn]
                    ELSE IF mw_ > Len(avail)
                         THEN [base EXCEPT !.mw = Len(avail), !.gpu = avail,
                                           !.warn = warn]
                         ELSE [base EXCEPT !.mw = mw_,
                                           !.gpu = Prefix(avail, mw_),
                                           !.warn = warn]
            ELSE [base EXCEPT !.mw = mw_]

\* ------------------------------------------------------ the pre-flight test
\* read_data_by_config and get_iterator_from_config: the splits of the
\* config's dataset that are not empty.
SplitsOf(config) == data[config.data_path]

\* test_dataset_reader_and_iterator, lines 359-372: the train section's
\* options against the splits of the data; config['train']['test_best'] and
\* config['train']['validate_best'] raise KeyError for a section without the
\* key, in the order in which the conditions are evaluated.
SplitCheck(config) ==
    IF config.train.has
    THEN IF config.train.test_best = "absent" THEN "key_error"
         ELSE IF config.train.test_best = "true"
                    /\ "test" \notin SplitsOf(config)
              THEN "config_error"
              ELSE IF config.train.validate_best = "absent" THEN "key_error"
                   ELSE IF (config.train.validate_best = "true"
                               \/ config.train.val_every_n_epochs > 0)
                              /\ "valid" \notin SplitsOf(config)
                        THEN "config_error"
                        ELSE "ok"
    ELSE IF "test" \notin SplitsOf(config) THEN "config_error" ELSE "ok"

\* A record that adds the non-empty splits of every config's dataset.
RecordEvery(n, comp, splits) ==
    [dtype \in Splits |-> comp[dtype] \/ dtype \in splits]

\* Lines 345-348: the config at position 0 records the non-empty splits of
\* its dataset; no later config changes the record.
RecordComposition(n, comp, splits) ==
    IF n = 0 THEN [dtype \in Splits |-> comp[dtype] \/ dtype \in splits]
    ELSE comp

\* Lines 349-353: a config after the first raises ConfigError when a split of
\* its dataset is empty and recorded as non-empty.
CompositionDiffers(n, comp, splits) ==
    n # 0 /\ \E dtype \in Splits : dtype \notin splits /\ comp[dtype]

\* test_dataset_reader_and_iterator, lines 344-372, for the config at
\* position n (0-based) of the generator: the composition is recorded or
\* compared, then the iterator class and the train section are checked.
test_dataset_reader_and_iterator(config, n, comp) ==
    LET comp1 == RecordComposition(n, comp, SplitsOf(config))
    IN IF CompositionDiffers(n, comp, SplitsOf(config))
       THEN [outcome |-> "config_error", comp |-> comp1]
       ELSE IF config.iterator = "fitting"
            THEN [outcome |-> "config_error", comp |-> comp1]
            ELSE [outcome |-> SplitCheck(config), comp |-> comp1]

RECURSIVE TestFrom(_, _)
\* test(), lines 332-335, from the config at position k (1-based) on: the
\* first config that raises ends the loop.
TestFrom(k, comp) ==
    IF k > Len(jobs) THEN [outcome |-> "ok", comp |-> comp]
    ELSE LET r == test_dataset_reader_and_iterator(jobs[k], k - 1, comp)
         IN IF r.outcome # "ok" THEN r ELSE TestFrom(k + 1, r.comp)

\* test(), lines 322-340, over the configs of the generator in test mode,
\* started from the composition of line 134.
test == TestFrom(1, [dtype \in Splits |-> FALSE])

\* ------------------------------------------------------------- construction
\* __init__ (lines 119-135): the multiprocessing attributes,
\* prepare_multiprocess when multiprocessing is enabled, and the pre-flight
\* test when do_test is set.  ValueError of prepare_multiprocess and
\* ConfigError of the test end construction at "config_error", a KeyError
\* of the test at "init_error".
Construct ==
    /\ pc = "new"
    /\ LET r == IF args.multiprocessing THEN prepare_multiprocess
                ELSE [raised |-> FALSE, mw_ |-> args.max_num_workers,
                      mw |-> None, gpu |-> NoneList, warn |-> <<>>]
           t == IF ~r.raised /\ args.do_test THEN test
                ELSE [outcome |-> "ok", comp |-> dataset_composition]
       IN /\ max_num_workers_' = r.mw_
          /\ max_num_workers' = r.mw
          /\ available_gpu' = r.gpu
          /\ warnings' = r.warn
          /\ dataset_composition' = t.comp
          /\ pc' = IF r.raised \/ t.outcome = "config_error"
                   THEN "config_error"
                   ELSE IF t.outcome = "key_error" THEN "init_error"
                   ELSE "constructed"
    /\ UNCHANGED <<args, host, trainer, jobs, target_metric, tasks, next_task,
                   running, pipes_results, i, dataset_res, log, work, best,
                   log_saved, retained, exit_env, data>>

\* ------------------------------------------------------------ the pool, run()
\* gpu_gen (lines 255-258): the GPU value of the task at submission index k
\* (0-based), j = k - (k // n) * n with n = len(self.available_gpu).
gpu_gen(k) ==
    k - (k \div Len(available_gpu)) * Len(available_gpu)

\* Lines 279-285: the argument tuples handed to imap_unordered, in
\* submission order (k_fold is carried along unchanged and left out).
TaskList ==
    [k \in 1..Len(jobs) |->
        IF available_gpu = NoneList
        THEN [pipe_config |-> jobs[k], cross_validation |-> args.cross_val,
              gpu |-> FALSE, gpu_ind |-> None]
        ELSE [pipe_config |-> jobs[k], cross_validation |-> args.cross_val,
              gpu |-> TRUE, gpu_ind |-> gpu_gen(k - 1)]]

\* run(), lines 265-287 up to the submission of the tasks: Pool(...) raises
\* ValueError for a pool of no worker, gpu_gen divides by zero for an empty
\* GPU list.
RunStart ==
    /\ pc = "constructed"
    /\ IF PoolSize(max_num_workers) = 0
          \/ (available_gpu # NoneList /\ Len(available_gpu) = 0)
       THEN /\ pc' = "error"
            /\ tasks' = tasks
       ELSE /\ pc' = "pool"
            /\ tasks' = TaskList
    /\ UNCHANGED <<args, host, trainer, jobs, max_num_workers_,
                   max_num_workers, available_gpu, warnings, target_metric,
                   next_task, running, pipes_results, i, dataset_res, log,
                   work, best, log_saved, retained,
                   exit_env, data, dataset_composition>>

\* A worker that exports the index it was given even for a CPU job.
AlwaysGpuInd(gpu, gpu_ind) == gpu_ind

\* train_pipe, lines 188-195: the CUDA_VISIBLE_DEVICES value the worker sets.
CudaVisible(gpu, gpu_ind) ==
    IF gpu THEN gpu_ind ELSE NoDevice

\* A guard that lets every index pass.
NeverRaises(gpu, gpu_ind) == FALSE

\* train_pipe, lines 188-191: with gpu set, an index that is not an integer
\* (None here) raises ConfigError before the environment is touched.
GuardRaises(gpu, gpu_ind) == gpu /\ gpu_ind = None

\* A pool worker takes the next task of the queue (tasks are taken in
\* submission order, by at most PoolSize workers at a time) and enters
\* train_pipe: the guard of lines 188-191 raises at once, and the exception
\* is the job's entry in the results; otherwise the worker sets
\* CUDA_VISIBLE_DEVICES and starts the job.
StartJob ==
    /\ pc = "pool"
    /\ next_task < Len(tasks)
    /\ Cardinality(DOMAIN running) < PoolSize(max_num_workers)
    /\ next_task' = next_task + 1
    /\ IF GuardRaises(tasks[next_task + 1].gpu, tasks[next_task + 1].gpu_ind)
       THEN /\ pipes_results' = Append(pipes_results,
                  [pipe_conf |-> tasks[next_task + 1].pipe_config,
                   exc |-> TRUE, results |-> <<>>])
            /\ running' = running
       ELSE /\ running' = running @@
                  ((next_task + 1) :> CudaVisible(tasks[next_task + 1].gpu,
                                                  tasks[next_task + 1].gpu_ind))
            /\ pipes_results' = pipes_results
    /\ UNCHANGED <<args, host, trainer, jobs, pc, max_num_workers_,
                   max_num_workers, available_gpu, warnings, target_metric,
                   tasks, i, dataset_res, log, work, best,
                   log_saved, retained,
                   exit_env, data, dataset_composition>>

\* The metric maps train_evaluate_model_from_config may return for a config
\* (split -> metric -> value, the metrics being those of the config's train
\* section); calc_cv_score's value is wrapped as {"test": cv_score}.
TrainerResults(pipe_config) ==
    UNION {[S -> [{pipe_config.metrics[n] : n \in 1..Len(pipe_config.metrics)}
                     -> trainer.scores]] :
            S \in (IF args.cross_val THEN {{"test"}} ELSE trainer.splits)}

\* The names 'pipe_{}'.format(n) for n = 1, 2, ...
PipeNames == <<"pipe_1", "pipe_2", "pipe_3", "pipe_4", "pipe_5", "pipe_6">>

\* 'pipe_{}'.format(ind), for an index or None (lines 307 and 406).
PipeDirName(ind) == IF ind = None THEN "pipe_None" ELSE PipeNames[ind]

\* A file of a dataset's working directory that belongs to no single job.
SharedAsset == "vocab.dict"

\* No config.json in a per-job directory yet.
NoConf == [data_path |-> "", pipe |-> 0, metrics |-> <<>>]

\* The entries of <save_path>/<dataset> once job k (1-based) has trained:
\* its checkpoint directory pipe_k, and the shared asset of the dataset.
Trained(dir, k) ==
    [exists |-> TRUE,
     entries |-> (PipeDirName(k) :> [model |-> k, config |-> NoConf])
                 @@ (SharedAsset :> [model |-> 0, config |-> NoConf])
                 @@ dir.entries]

\* train_pipe, lines 186-209: CUDA_VISIBLE_DEVICES of the worker process
\* when train_pipe is left; no statement deletes or restores the variable.
ExitEnv(visible) == visible

\* train_pipe, lines 197-209: the job ends and its result joins the
\* results in completion order.
FinishJob(k) ==
    /\ pc = "pool"
    /\ k \in DOMAIN running
    /\ k \notin trainer.hangs
    /\ \E results \in TrainerResults(tasks[k].pipe_config) :
          pipes_results' = Append(pipes_results,
              [pipe_conf |-> tasks[k].pipe_config, exc |-> FALSE,
               results |-> results])
    /\ running' = [j \in DOMAIN running \ {k} |-> running[j]]
    /\ exit_env' = exit_env @@ (k :> ExitEnv(running[k]))
    /\ work' = [work EXCEPT ![jobs[k].data_path] =
                    Trained(work[jobs[k].data_path], k)]
    /\ UNCHANGED <<args, host, trainer, jobs, pc, max_num_workers_,
                   max_num_workers, available_gpu, warnings, target_metric,
                   tasks, next_task, i, dataset_res, log, best, log_saved,
                   retained, data, dataset_composition>>

\* train_pipe raises (lines 188-205): the pool sends the exception back in
\* place of a result, in completion order, and the worker goes on to its
\* next task; the job is not run again.
FailJob(k) ==
    /\ pc = "pool"
    /\ trainer.fails
    /\ k \in DOMAIN running
    /\ k \notin trainer.hangs
    /\ pipes_results' = Append(pipes_results,
          [pipe_conf |-> tasks[k].pipe_config, exc |-> TRUE,
           results |-> <<>>])
    /\ running' = [j \in DOMAIN running \ {k} |-> running[j]]
    /\ exit_env' = exit_env @@ (k :> ExitEnv(running[k]))
    /\ UNCHANGED <<args, host, trainer, jobs, pc, max_num_workers_,
                   max_num_workers, available_gpu, warnings, target_metric,
                   tasks, next_task, i, dataset_res, log, work, best,
                   log_saved, retained, data, dataset_composition>>

\* A join that returns as soon as every task was handed to a worker.
PoolSubmitted == next_task = Len(tasks)

\* workers.join(): every task was taken by a worker and no worker is still
\* executing one.
PoolDrained == next_task = Len(tasks) /\ DOMAIN running = {}

\* A join that does not wait for the workers.
JoinWithoutWait ==
    /\ pc = "pool"
    /\ pc' = "ingest"
    /\ UNCHANGED <<args, host, trainer, jobs, max_num_workers_,
                   max_num_workers, available_gpu, warnings, target_metric,
                   tasks, next_task, running, pipes_results, i, dataset_res,
                   log, work, best, log_saved, retained,
                   exit_env, data, dataset_composition>>

\* workers.close(); workers.join() (lines 282-287): returns once every task
\* has been executed.
Join ==
    /\ pc = "pool"
    /\ PoolDrained
    /\ pc' = "ingest"
    /\ UNCHANGED <<args, host, trainer, jobs, max_num_workers_,
                   max_num_workers, available_gpu, warnings, target_metric,
                   tasks, next_task, running, pipes_results, i, dataset_res,
                   log, work, best, log_saved, retained,
                   exit_env, data, dataset_composition>>

\* ---------------------------------------------------------- update_logger
\* Line 241: the best_score a dataset's entry starts with.
InitBestScore == -1

\* An index that is the same for every result.
FirstInd(n) == 1

\* Lines 224, 237 and 246/251: the 1-based index update_logger gives the
\* result it takes at position n (0-based) of its enumerate loop.
PipeInd(n) == n + 1

\* A loop that steps over every other result.
SkipPos(n) == n + 2

\* Line 213: the position of the result enumerate yields after position n.
NextPos(n) == n + 1

\* A score read from the 'valid' split whenever the result has one.
ValidFirstScore(results, metric) ==
    IF "valid" \in DOMAIN results THEN results["valid"][metric]
    ELSE results["test"][metric]

\* Lines 243-251: the score of a result, the target metric of its 'test'
\* split when it has one, of its 'valid' split otherwise.
TargetScore(results, metric) ==
    IF "test" \in DOMAIN results THEN results["test"][metric]
    ELSE results["valid"][metric]

\* A comparison that lets an equal score replace the stored best.
IsBetterOrEqual(score, best_score) == score >= best_score

\* A comparison that lets any different score replace the stored best.
IsDifferent(score, best_score) == score # best_score

\* Lines 244 and 249: the comparison that decides a new best.
IsBetter(score, best_score) == score > best_score

\* The keys of dataset_res.
ResNames(dr) == {dr[n].name : n \in 1..Len(dr)}

\* The position of key name in dataset_res.
ResIndex(dr, name) == CHOOSE n \in 1..Len(dr) : dr[n].name = name

\* An update that stores a new best score and keeps the old index.
UpdateScoreOnly(dr, name, score, n) ==
    LET dr1 == IF name \in ResNames(dr) THEN dr
               ELSE Append(dr, [name |-> name, best_score |-> InitBestScore,
                                best_ind |-> None])
        at  == ResIndex(dr1, name)
    IN IF IsBetter(score, dr1[at].best_score)
       THEN [dr1 EXCEPT ![at].best_score = score]
       ELSE dr1

\* Lines 239-251: dataset_res after the result of dataset name, with
\* score, taken at loop position n.
UpdateBest(dr, name, score, n) ==
    LET dr1 == IF name \in ResNames(dr) THEN dr
               ELSE Append(dr, [name |-> name, best_score |-> InitBestScore,
                                best_ind |-> None])
        at  == ResIndex(dr1, name)
    IN IF IsBetter(score, dr1[at].best_score)
       THEN [dr1 EXCEPT ![at].best_score = score, ![at].best_ind = PipeInd(n)]
       ELSE dr1

\* save_config (lines 402-408) can open its file only in an existing
\* directory <save_path>/<dataset_name>/pipe_<n+1>.
CanSaveConfig(dataset_name, n) ==
    /\ work[dataset_name].exists
    /\ PipeDirName(PipeInd(n)) \in DOMAIN work[dataset_name].entries

\* save_config (lines 402-408): config.json of pipe_<n+1> holds conf.
save_config(conf, dataset_name, n) ==
    [work EXCEPT ![dataset_name].entries[PipeDirName(PipeInd(n))].config = conf]

\* A target metric taken from every result's config, a given name included.
RefixMetric(n, current, pipe) == pipe.metrics[1]

\* Lines 218-222: the target metric after the pass at position n: the first
\* pass replaces an unset name by the first metric of its result's config;
\* no other pass assigns it.
FixMetric(n, current, pipe) ==
    IF n = 0 /\ current = "None" THEN pipe.metrics[1] ELSE current

\* An aggregator that tracks the best result whatever save_best says.
AlwaysTracksBest == TRUE

\* Line 239: update_logger tracks a best result per dataset only when
\* save_best is set.
TracksBest == args.save_best

\* An exception swallowed where it should propagate: the loop just ends.
SwallowedPc == "ingested"

\* Lines 213 and 289: an exception a job raised is re-raised by the result
\* iterator when the loop reaches it, and propagates out of update_logger
\* and run(), which has no handler.
AbortPc == "error"

\* One pass of update_logger's loop (lines 213-251) over the result at
\* position i; the pass that takes the last result returns dataset_res to
\* run().  A failing save_config raises out of the loop after the log
\* record was written; the entry of a job that raised re-raises its
\* exception before the loop body runs.
Ingest ==
    /\ pc = "ingest"
    /\ i < Len(pipes_results)
    /\ ~pipes_results[i + 1].exc
    /\ pipes_results[i + 1].pipe_conf.train.has
    /\ LET res          == pipes_results[i + 1]
           pipe         == res.pipe_conf
           results      == res.results
           dataset_name == pipe.data_path
           metric       == FixMetric(i, target_metric, pipe)
           saves        == ~args.cross_val
       IN /\ target_metric' = metric
          /\ log' = Append(log, [pipe_ind |-> PipeInd(i),
                                 dataset |-> dataset_name,
                                 pipe_conf |-> pipe.pipe,
                                 pipe_res |-> results])
          /\ IF saves /\ ~CanSaveConfig(dataset_name, i)
             THEN /\ pc' = "error"
                  /\ UNCHANGED <<work, dataset_res, i>>
             ELSE /\ work' = IF saves THEN save_config(pipe, dataset_name, i)
                             ELSE work
                  /\ dataset_res' =
                        IF TracksBest
                        THEN UpdateBest(dataset_res, dataset_name,
                                        TargetScore(results, metric), i)
                        ELSE dataset_res
                  /\ i' = NextPos(i)
                  /\ pc' = IF NextPos(i) >= Len(pipes_results)
                           THEN "ingested" ELSE "ingest"
    /\ UNCHANGED <<args, host, trainer, jobs, max_num_workers_,
                   max_num_workers, available_gpu, warnings, tasks,
                   next_task, running, pipes_results, best, log_saved,
                   retained,
                   exit_env, data, dataset_composition>>

\* Lines 219 and 227: pipe['train'] raises KeyError for a config without a
\* train section, before the record of the result is written.
IngestNoTrain ==
    /\ pc = "ingest"
    /\ i < Len(pipes_results)
    /\ ~pipes_results[i + 1].exc
    /\ ~pipes_results[i + 1].pipe_conf.train.has
    /\ pc' = "error"
    /\ UNCHANGED <<args, host, trainer, jobs, max_num_workers_,
                   max_num_workers, available_gpu, warnings, target_metric,
                   tasks, next_task, running, pipes_results, i, dataset_res,
                   log, work, best, log_saved, retained, exit_env, data,
                   dataset_composition>>

\* The result iterator reaches the entry of a job that raised (line 213):
\* the exception leaves update_logger and run().
IngestRaises ==
    /\ pc = "ingest"
    /\ i < Len(pipes_results)
    /\ pipes_results[i + 1].exc
    /\ pc' = AbortPc
    /\ UNCHANGED <<args, host, trainer, jobs, max_num_workers_,
                   max_num_workers, available_gpu, warnings, target_metric,
                   tasks, next_task, running, pipes_results, i, dataset_res,
                   log, work, best, log_saved, retained, exit_env, data,
                   dataset_composition>>

\* A run that goes on to retention without saving the log.
SkipSaveLog ==
    /\ pc = "ingested"
    /\ pc' = "retain"
    /\ UNCHANGED <<args, host, trainer, jobs, max_num_workers_,
                   max_num_workers, available_gpu, warnings, target_metric,
                   tasks, next_task, running, pipes_results, i, dataset_res,
                   log, work, best, log_saved, retained,
                   exit_env, data, dataset_composition>>

\* run(), lines 291-293: the total time is added to the log and the
\* aggregate log is saved.
SaveLog ==
    /\ pc = "ingested"
    /\ log_saved' = log_saved + 1
    /\ pc' = "retain"
    /\ UNCHANGED <<args, host, trainer, jobs, max_num_workers_,
                   max_num_workers, available_gpu, warnings, target_metric,
                   tasks, next_task, running, pipes_results, i, dataset_res,
                   log, work, best, retained,
                   exit_env, data, dataset_composition>>

\* ------------------------------------------------------------- retention
\* f.startswith('pipe')
StartsWithPipe(f) == f = "pipe_None" \/ \E n \in DOMAIN PipeNames : f = PipeNames[n]

\* Lines 303-312: the entries of the best directory after the loop over the
\* files of source.
MoveBest(source, dest, best_ind) ==
    LET moved == {f \in DOMAIN source :
                    \/ (~StartsWithPipe(f) /\ f \notin DOMAIN dest)
                    \/ (StartsWithPipe(f) /\ f = PipeDirName(best_ind))}
    IN [f \in moved \cup DOMAIN dest |->
            IF f \in moved THEN source[f] ELSE dest[f]]

\* A best directory emptied when it is prepared.
FreshDir(dir) == [exists |-> TRUE, entries |-> <<>>]

\* Lines 299-301: the best directory is created only when it is missing;
\* an existing one keeps its entries.
EnsureDir(dir) == [exists |-> TRUE, entries |-> dir.entries]

\* One pass of run()'s retention loop (lines 297-315) for the next key of
\* dataset_res, taken while the driving process is at position at:
\* os.listdir raises when the working directory is missing (the best
\* directory was created before).
RetainPass(at) ==
    /\ pc = at
    /\ args.save_best
    /\ retained < Len(dataset_res)
    /\ LET name == dataset_res[retained + 1].name
           ind  == dataset_res[retained + 1].best_ind
       IN IF ~work[name].exists
          THEN /\ best' = [best EXCEPT ![name] = EnsureDir(best[name])]
               /\ pc' = "error"
               /\ UNCHANGED <<work, retained>>
          ELSE /\ best' = [best EXCEPT ![name] =
                              [exists |-> TRUE,
                               entries |-> MoveBest(work[name].entries,
                                              EnsureDir(best[name]).entries,
                                              ind)]]
               /\ work' = [work EXCEPT ![name] =
                              [exists |-> FALSE, entries |-> <<>>]]
               /\ retained' = retained + 1
               /\ pc' = pc
    /\ UNCHANGED <<args, host, trainer, jobs, max_num_workers_,
                   max_num_workers, available_gpu, warnings, target_metric,
                   tasks, next_task, running, pipes_results, i, dataset_res,
                   log, log_saved,
                   exit_env, data, dataset_composition>>

\* The retention loop of run().
Retain == RetainPass("retain")

\* run(), lines 317-320: the retention loop is over (or save_best is off)
\* and run() returns.
Return ==
    /\ pc = "retain"
    /\ (~args.save_best \/ retained = Len(dataset_res))
    /\ pc' = "done"
    /\ UNCHANGED <<args, host, trainer, jobs, max_num_workers_,
                   max_num_workers, available_gpu, warnings, target_metric,
                   tasks, next_task, running, pipes_results, i, dataset_res,
                   log, work, best, log_saved, retained,
                   exit_env, data, dataset_composition>>

\* The retention step (lines 296-315) is entered a second time with the
\* dataset_res of the run whose retention has completed: the loop starts
\* again at the first key.
RetainAgainStart ==
    /\ pc = "done"
    /\ pc' = "retain_again"
    /\ retained' = 0
    /\ UNCHANGED <<args, host, trainer, jobs, max_num_workers_,
                   max_num_workers, available_gpu, warnings, target_metric,
                   tasks, next_task, running, pipes_results, i, dataset_res,
                   log, work, best, log_saved,
                   exit_env, data, dataset_composition>>

\* One pass of the loop of the second invocation.
RetainAgain == RetainPass("retain_again")

\* The second invocation ends: save_best is off, or every key was taken.
RetainAgainEnd ==
    /\ pc = "retain_again"
    /\ (~args.save_best \/ retained = Len(dataset_res))
    /\ pc' = "done_again"
    /\ UNCHANGED <<args, host, trainer, jobs, max_num_workers_,
                   max_num_workers, available_gpu, warnings, target_metric,
                   tasks, next_task, running, pipes_results, i, dataset_res,
                   log, work, best, log_saved, retained,
                   exit_env, data, dataset_composition>>

\* ---------------------------------------------------------- specifications
\* A train section that declares 'test_best' and 'validate_best' as true and
\* no 'val_every_n_epochs'.
FullTrain == [has |-> TRUE, test_best |-> "true", validate_best |-> "true",
              val_every_n_epochs |-> 0]

\* The configs the pipeline generator yields: n pipelines, those of dataset
\* "A" before those of dataset "B", each with its own processing chain.
JobLists ==
    {[k \in 1..n |-> [data_path |-> IF k <= a THEN "A" ELSE "B",
                      pipe |-> k, metrics |-> <<"acc">>,
                      train |-> FullTrain, iterator |-> "basic"]] :
        <<n, a>> \in {p \in (1..NumJobs) \X (0..NumJobs) : p[2] <= p[1]}}

\* The fields of a PipelineManager before __init__ has run, and an empty
\* checkpoint tree.
Blank ==
    /\ pc = "new"
    /\ max_num_workers_ = None
    /\ max_num_workers = None
    /\ available_gpu = NoneList
    /\ warnings = <<>>
    /\ target_metric = "None"
    /\ tasks = <<>>
    /\ next_task = 0
    /\ running = <<>>
    /\ exit_env = <<>>
    /\ pipes_results = <<>>
    /\ i = 0
    /\ dataset_res = <<>>
    /\ log = <<>>
    /\ work = [d \in Datasets |-> [exists |-> FALSE, entries |-> <<>>]]
    /\ best = [d \in Datasets |-> [exists |-> FALSE, entries |-> <<>>]]
    /\ log_saved = 0
    /\ retained = 0
    /\ data = [d \in Datasets |-> Splits]
    /\ dataset_composition = [dtype \in Splits |-> FALSE]

\* Every resource mode, host and worker request; one metric value.
Init ==
    /\ Blank
    /\ args \in [do_test : {FALSE},
                 multiprocessing : BOOLEAN,
                 max_num_workers : {None} \cup (1..MaxWorkersArg),
                 use_all_gpus : BOOLEAN,
                 use_multi_gpus : GpuLists,
                 cross_val : {FALSE},
                 save_best : {TRUE}]
    /\ host \in [cpu : 2..MaxCpu, idle : SUBSET GpuIds]
    /\ trainer = [scores |-> {0}, splits |-> {{"test"}}, fails |-> FALSE, hangs |-> {}]
    /\ jobs \in {js \in JobLists : Len(js) = NumJobs}

\* A CPU-only pool of MaxCpu workers; every metric value, split and
\* dataset layout.
InitAgg ==
    /\ Blank
    /\ args \in [do_test : {FALSE},
                 multiprocessing : {TRUE},
                 max_num_workers : {MaxCpu},
                 use_all_gpus : {FALSE},
                 use_multi_gpus : {<<>>},
                 cross_val : BOOLEAN,
                 save_best : BOOLEAN]
    /\ host = [cpu |-> MaxCpu, idle |-> {}]
    /\ trainer = [scores |-> Scores, splits |-> {{"test"}, {"valid"}},
                  fails |-> FALSE, hangs |-> {}]
    /\ jobs \in JobLists

Next ==
    \/ Construct
    \/ RunStart
    \/ StartJob
    \/ \E k \in 1..NumJobs : FinishJob(k)
    \/ Join
    \/ Ingest
    \/ SaveLog
    \/ Retain
    \/ Return

\* The steps of a run in which jobs may raise.
NextFail ==
    \/ Next
    \/ \E k \in 1..NumJobs : FailJob(k)
    \/ IngestRaises

\* Every resource mode and host, also a host of one CPU and a request of
\* zero workers; two pipelines of one dataset.
InitPlan ==
    /\ Blank
    /\ args \in [do_test : {FALSE},
                 multiprocessing : BOOLEAN,
                 max_num_workers : {None} \cup (0..MaxWorkersArg),
                 use_all_gpus : BOOLEAN,
                 use_multi_gpus : GpuLists,
                 cross_val : {FALSE},
                 save_best : {TRUE}]
    /\ host \in [cpu : 1..MaxCpu, idle : SUBSET GpuIds]
    /\ trainer = [scores |-> {0}, splits |-> {{"test"}}, fails |-> FALSE, hangs |-> {}]
    /\ jobs \in {js \in JobLists :
                    Len(js) = 2 /\ \A k \in 1..2 : js[k].data_path = "A"}

\* A CPU-only pool of MaxCpu workers whose jobs may raise.
InitFail ==
    /\ Blank
    /\ args = [do_test |-> FALSE,
               multiprocessing |-> TRUE, max_num_workers |-> MaxCpu,
               use_all_gpus |-> FALSE, use_multi_gpus |-> <<>>,
               cross_val |-> FALSE, save_best |-> TRUE]
    /\ host = [cpu |-> MaxCpu, idle |-> {}]
    /\ trainer = [scores |-> {0, 1}, splits |-> {{"test"}}, fails |-> TRUE, hangs |-> {}]
    /\ jobs \in JobLists

\* An entry of a best directory left by an earlier run.
Stale == [model |-> None, config |-> NoConf]

\* The best directories an earlier run of the same experiment may have left:
\* none, one with a shared asset, one with a shared asset and a checkpoint.
PriorBest ==
    {[exists |-> FALSE, entries |-> <<>>],
     [exists |-> TRUE, entries |-> (SharedAsset :> Stale)],
     [exists |-> TRUE, entries |-> (SharedAsset :> Stale) @@ ("pipe_1" :> Stale)]}

\* A CPU-only run over best directories left by an earlier run.
InitRetain ==
    /\ pc = "new"
    /\ max_num_workers_ = None
    /\ max_num_workers = None
    /\ available_gpu = NoneList
    /\ warnings = <<>>
    /\ target_metric = "None"
    /\ tasks = <<>>
    /\ next_task = 0
    /\ running = <<>>
    /\ exit_env = <<>>
    /\ pipes_results = <<>>
    /\ i = 0
    /\ dataset_res = <<>>
    /\ log = <<>>
    /\ work = [d \in Datasets |-> [exists |-> FALSE, entries |-> <<>>]]
    /\ \E prior \in PriorBest : best = [d \in Datasets |-> prior]
    /\ log_saved = 0
    /\ retained = 0
    /\ data = [d \in Datasets |-> Splits]
    /\ dataset_composition = [dtype \in Splits |-> FALSE]
    /\ args = [do_test |-> FALSE,
               multiprocessing |-> TRUE, max_num_workers |-> MaxCpu,
               use_all_gpus |-> FALSE, use_multi_gpus |-> <<>>,
               cross_val |-> FALSE, save_best |-> TRUE]
    /\ host = [cpu |-> MaxCpu, idle |-> {}]
    /\ trainer = [scores |-> {0, 1}, splits |-> {{"test"}}, fails |-> FALSE, hangs |-> {}]
    /\ jobs \in JobLists

\* A CPU-only run with retention enabled or not, whose retention step may
\* be invoked again after the run.
InitTwice ==
    /\ Blank
    /\ args \in [do_test : {FALSE},
                 multiprocessing : {TRUE},
                 max_num_workers : {MaxCpu},
                 use_all_gpus : {FALSE},
                 use_multi_gpus : {<<>>},
                 cross_val : {FALSE},
                 save_best : BOOLEAN]
    /\ host = [cpu |-> MaxCpu, idle |-> {}]
    /\ trainer = [scores |-> {0, 1}, splits |-> {{"test"}}, fails |-> FALSE, hangs |-> {}]
    /\ jobs \in JobLists

\* The steps of a run followed by a second invocation of the retention step.
NextTwice ==
    \/ Next
    \/ RetainAgainStart
    \/ RetainAgain
    \/ RetainAgainEnd

Spec == Init /\ [][Next]_vars

SpecTwice == InitTwice /\ [][NextTwice]_vars

\* A CPU-only pool of two workers; at most one job of the run never ends.
InitHang ==
    /\ Blank
    /\ args = [do_test |-> FALSE,
               multiprocessing |-> TRUE, max_num_workers |-> 2,
               use_all_gpus |-> FALSE, use_multi_gpus |-> <<>>,
               cross_val |-> FALSE, save_best |-> TRUE]
    /\ host = [cpu |-> MaxCpu, idle |-> {}]
    /\ jobs \in JobLists
    /\ \E hangs \in {{}} \cup {{h} : h \in 1..Len(jobs)} :
          trainer = [scores |-> {0}, splits |-> {{"test"}}, fails |-> FALSE,
                     hangs |-> hangs]

\* The steps of the driving process: run() up to the pool, the join, the
\* ingestion loop, the log and the retention loop.
Driver ==
    \/ Construct
    \/ RunStart
    \/ Join
    \/ Ingest
    \/ SaveLog
    \/ Retain
    \/ Return

\* The driving process keeps running; an idle worker takes the next task;
\* a job that ends at all ends eventually.
Fairness ==
    /\ WF_vars(Driver)
    /\ WF_vars(StartJob)
    /\ \A k \in 1..NumJobs : WF_vars(FinishJob(k))

SpecLive == InitHang /\ [][Next]_vars /\ Fairness

\* The metric lists a config's train section may declare.
MetricLists == {<<"acc", "f1">>, <<"f1", "acc">>}

\* A CPU-only run of two pipelines of one dataset whose configs declare two
\* metrics, with a target metric given or not, and a Trainer that reports
\* both splits or the 'valid' split only, with any value per split and
\* metric.
InitMetric ==
    /\ pc = "new"
    /\ max_num_workers_ = None
    /\ max_num_workers = None
    /\ available_gpu = NoneList
    /\ warnings = <<>>
    /\ target_metric \in {"None", "acc", "f1"}
    /\ tasks = <<>>
    /\ next_task = 0
    /\ running = <<>>
    /\ exit_env = <<>>
    /\ pipes_results = <<>>
    /\ i = 0
    /\ dataset_res = <<>>
    /\ log = <<>>
    /\ work = [d \in Datasets |-> [exists |-> FALSE, entries |-> <<>>]]
    /\ best = [d \in Datasets |-> [exists |-> FALSE, entries |-> <<>>]]
    /\ log_saved = 0
    /\ retained = 0
    /\ data = [d \in Datasets |-> Splits]
    /\ dataset_composition = [dtype \in Splits |-> FALSE]
    /\ args = [do_test |-> FALSE,
               multiprocessing |-> TRUE, max_num_workers |-> 2,
               use_all_gpus |-> FALSE, use_multi_gpus |-> <<>>,
               cross_val |-> FALSE, save_best |-> TRUE]
    /\ host = [cpu |-> MaxCpu, idle |-> {}]
    /\ trainer = [scores |-> {0, 1}, splits |-> {{"test", "valid"}, {"valid"}},
                  fails |-> FALSE, hangs |-> {}]
    /\ \E ms \in MetricLists :
          jobs = [k \in 1..2 |-> [data_path |-> "A", pipe |-> k,
                                  metrics |-> ms, train |-> FullTrain,
                                  iterator |-> "basic"]]

SpecMetric == InitMetric /\ [][Next]_vars

\* The train sections of a config: none (or an empty one), or one that
\* declares 'test_best' and 'validate_best' or leaves them out.
TrainSections ==
    {[has |-> FALSE, test_best |-> "absent", validate_best |-> "absent",
      val_every_n_epochs |-> 0]}
    \cup [has : {TRUE},
          test_best : {"absent", "true", "false"},
          validate_best : {"absent", "true", "false"},
          val_every_n_epochs : {0, 1}]

\* A CPU-only manager built with or without the pre-flight test over two
\* pipelines, with any train section, iterator class and data splits.
InitTest ==
    /\ pc = "new"
    /\ max_num_workers_ = None
    /\ max_num_workers = None
    /\ available_gpu = NoneList
    /\ warnings = <<>>
    /\ target_metric = "None"
    /\ tasks = <<>>
    /\ next_task = 0
    /\ running = <<>>
    /\ exit_env = <<>>
    /\ pipes_results = <<>>
    /\ i = 0
    /\ dataset_res = <<>>
    /\ log = <<>>
    /\ work = [d \in Datasets |-> [exists |-> FALSE, entries |-> <<>>]]
    /\ best = [d \in Datasets |-> [exists |-> FALSE, entries |-> <<>>]]
    /\ log_saved = 0
    /\ retained = 0
    /\ dataset_composition = [dtype \in Splits |-> FALSE]
    /\ data \in [Datasets -> SUBSET Splits]
    /\ args \in [do_test : BOOLEAN,
                 multiprocessing : {TRUE},
                 max_num_workers : {2},
                 use_all_gpus : {FALSE},
                 use_multi_gpus : {<<>>},
                 cross_val : {FALSE},
                 save_best : {TRUE}]
    /\ host = [cpu |-> MaxCpu, idle |-> {}]
    /\ trainer = [scores |-> {0}, splits |-> {{"test"}}, fails |-> FALSE,
                  hangs |-> {}]
    /\ \E js \in {l \in JobLists : Len(l) = 2} :
       \E tr \in TrainSections :
       \E it \in {"basic", "fitting"} :
          jobs = [k \in 1..2 |-> [js[k] EXCEPT !.train = tr, !.iterator = it]]

\* The steps of a run whose configs may lack a train section.
NextTest ==
    \/ Next
    \/ IngestNoTrain

SpecTest == InitTest /\ [][NextTest]_vars

\* The argument tuples a caller may hand to train_pipe for a config: gpu on
\* or off, with an index or None.
WorkerArgs(config) ==
    [pipe_config : {config}, cross_validation : {FALSE},
     gpu : BOOLEAN, gpu_ind : {None} \cup GpuIds]

\* Either a manager to be constructed in one of the GPU modes, or a pool of
\* two workers over which train_pipe (a static method) is mapped with
\* argument tuples of the caller's own.
InitWorker ==
    /\ Blank
    /\ host \in [cpu : {MaxCpu}, idle : SUBSET GpuIds]
    /\ trainer = [scores |-> {0}, splits |-> {{"test"}}, fails |-> FALSE,
                  hangs |-> {}]
    /\ jobs \in {js \in JobLists :
                    Len(js) = 2 /\ \A k \in 1..2 : js[k].data_path = "A"}
    /\ args \in [do_test : {FALSE},
                 multiprocessing : {TRUE},
                 max_num_workers : {2},
                 use_all_gpus : BOOLEAN,
                 use_multi_gpus : GpuLists,
                 cross_val : {FALSE},
                 save_best : {TRUE}]

\* The pool of InitWorker's second case: train_pipe is about to be mapped
\* over the caller's tuples.
DirectCall ==
    /\ pc = "new"
    /\ ~args.use_all_gpus
    /\ args.use_multi_gpus = <<>>
    /\ \E ts \in [1..Len(jobs) -> UNION {WorkerArgs(jobs[k]) : k \in 1..Len(jobs)}] :
          /\ \A k \in 1..Len(jobs) : ts[k].pipe_config = jobs[k]
          /\ tasks' = ts
    /\ max_num_workers' = args.max_num_workers
    /\ pc' = "pool"
    /\ UNCHANGED <<args, host, trainer, jobs, max_num_workers_,
                   available_gpu, warnings, target_metric, next_task,
                   running, pipes_results, i, dataset_res, log, work, best,
                   log_saved, retained, exit_env, data,
                   dataset_composition>>

\* The steps of a run, or of a pool mapped over the caller's tuples, in
\* which the guard of train_pipe may raise.
NextWorker ==
    \/ Next
    \/ DirectCall
    \/ IngestRaises

SpecWorker == InitWorker /\ [][NextWorker]_vars

SpecPlan == InitPlan /\ [][Next]_vars

SpecFail == InitFail /\ [][NextFail]_vars

SpecRetain == InitRetain /\ [][Next]_vars

SpecAgg == InitAgg /\ [][Next]_vars

\* ------------------------------------------------------------- properties
\* The submission index (0-based) of the job whose chain is c.
SubmissionIndex(c) == (CHOOSE k \in 1..Len(jobs) : jobs[k].pipe = c) - 1

\* The metric map job k (1-based) reported.
ResultOf(k) ==
    LET at == CHOOSE n \in 1..Len(pipes_results) :
                  pipes_results[n].pipe_conf = jobs[k]
    IN pipes_results[at].results

\* The jobs (1-based) of dataset d, and those of them with the highest
\* target score.
JobsOf(d) == {k \in 1..Len(jobs) : jobs[k].data_path = d}

BestJobsOf(d) ==
    {k \in JobsOf(d) : \A j \in JobsOf(d) :
        TargetScore(ResultOf(k), target_metric)
            >= TargetScore(ResultOf(j), target_metric)}

\* update_logger has returned.
Ingested == pc \in {"ingested", "retain", "done"}

\* The (best_score, best_ind) update_logger holds for dataset d: the
\* initial pair until a result of d has been taken.
Stored(dr, d) ==
    IF d \in ResNames(dr)
    THEN [best_score |-> dr[ResIndex(dr, d)].best_score,
          best_ind |-> dr[ResIndex(dr, d)].best_ind]
    ELSE [best_score |-> InitBestScore, best_ind |-> None]

\* C1: in GPU mode with no more pool workers than GPU slots, no two jobs
\* running at the same time were given the same GPU index.
C1_GpuExclusive ==
    (pc = "pool" /\ available_gpu # NoneList
        /\ PoolSize(max_num_workers) <= Len(available_gpu))
    => \A a \in DOMAIN running : \A b \in DOMAIN running :
          a # b => tasks[a].gpu_ind # tasks[b].gpu_ind

\* C2: once every result is ingested, the best index recorded for a dataset
\* is the 1-based submission index of a job of that dataset with the highest
\* target score (stated for datasets whose highest score is above the initial
\* best_score).
C2_BestIsMaxScoreJob ==
    (Ingested /\ args.save_best)
    => \A n \in 1..Len(dataset_res) :
          (\E k \in JobsOf(dataset_res[n].name) :
              TargetScore(ResultOf(k), target_metric) > InitBestScore)
          => dataset_res[n].best_ind \in BestJobsOf(dataset_res[n].name)

\* C3: in a run without cross-validation, once every result is ingested the
\* config.json of per-job directory k+1 holds the config submitted at index k.
C3_PersistedConfigIsSubmitted ==
    (pc = "ingested" /\ ~args.cross_val)
    => \A k \in 1..Len(jobs) :
          /\ PipeDirName(k) \in DOMAIN work[jobs[k].data_path].entries
          /\ work[jobs[k].data_path].entries[PipeDirName(k)].config = jobs[k]

\* C4: every log record carries the index derived from its job's submission
\* index (pipe_ind = job_index + 1), whatever the position at which the
\* result arrived.
C4_LoggedIndexIsSubmissionIndex ==
    \A r \in 1..Len(log) :
        log[r].pipe_ind = SubmissionIndex(log[r].pipe_conf) + 1

\* C5: in GPU mode the device made visible to the job at submission index k
\* is gpu_slots[k mod len(gpu_slots)].
C5_VisibleDeviceIsSlot ==
    (pc = "pool" /\ available_gpu # NoneList)
    => \A k \in DOMAIN running :
          running[k] = available_gpu[((k - 1) % Len(available_gpu)) + 1]

\* C6: the number of jobs executing at the same time never exceeds the
\* plan's worker count (stated where a worker count was requested: the
\* plan's count is then at most the requested count, clamped to the CPUs).
C6_AtMostWorkerCount ==
    (pc = "pool" /\ args.multiprocessing /\ max_num_workers_ # None)
    => Cardinality(DOMAIN running) <= max_num_workers_

C8_OneBestCheckpointRetained ==
    (pc = "done" /\ args.save_best)
    => \A d \in Datasets :
          JobsOf(d) # {}
          => /\ ~work[d].exists
             /\ best[d].exists
             /\ Cardinality({f \in DOMAIN best[d].entries :
                                StartsWithPipe(f)}) = 1
             /\ \A f \in DOMAIN best[d].entries :
                   StartsWithPipe(f)
                   => best[d].entries[f].model \in BestJobsOf(d)

\* C9: an ingestion step changes a dataset's (best_score, best index) only
\* when the ingested result is of that dataset and its target score is
\* strictly greater than the stored best_score.
C9_ChangeOnlyIfStrictlyGreater ==
    [][\A d \in Datasets :
          Stored(dataset_res', d) # Stored(dataset_res, d)
          => /\ pc = "ingest"
             /\ i < Len(pipes_results)
             /\ pipes_results[i + 1].pipe_conf.data_path = d
             /\ TargetScore(pipes_results[i + 1].results, target_metric')
                   > Stored(dataset_res, d).best_score]_vars

\* Two results of one dataset with equal scores above the initial best were
\* ingested one after the other, and the first of them is the recorded best.
C9_Witness ==
    /\ pc = "ingest"
    /\ i = 2
    /\ log[1].dataset = log[2].dataset
    /\ TargetScore(log[1].pipe_res, target_metric) > InitBestScore
    /\ TargetScore(log[1].pipe_res, target_metric)
          = TargetScore(log[2].pipe_res, target_metric)
    /\ Stored(dataset_res, log[1].dataset).best_ind = 1

\* C10: a dataset's best_score never decreases from one step to the next.
C10_BestScoreNeverDecreases ==
    [][\A d \in Datasets :
          Stored(dataset_res', d).best_score
             >= Stored(dataset_res, d).best_score]_vars

\* A result scoring lower than the stored best of its dataset was ingested
\* and the stored best_score kept the higher value.
C10_Witness ==
    /\ pc = "ingest"
    /\ i = 2
    /\ log[1].dataset = log[2].dataset
    /\ TargetScore(log[2].pipe_res, target_metric)
          < TargetScore(log[1].pipe_res, target_metric)
    /\ Stored(dataset_res, log[1].dataset).best_score
          = TargetScore(log[1].pipe_res, target_metric)

\* dataset_res after the results of jobs 1..n taken in submission order.
RECURSIVE InOrderBest(_)
InOrderBest(n) ==
    IF n = 0 THEN <<>>
    ELSE UpdateBest(InOrderBest(n - 1), jobs[n].data_path,
                    TargetScore(ResultOf(n), target_metric), n - 1)

\* C11: whatever the completion order, a run ends with the per-job
\* directories holding the same configs and with the same best index per
\* dataset as the run of the same jobs and metrics whose results arrive in
\* submission order.
C11_OutcomeIndependentOfTiming ==
    (pc = "ingested" /\ args.save_best /\ ~args.cross_val)
    => /\ \A d \in Datasets :
             Stored(dataset_res, d).best_ind
                = Stored(InOrderBest(Len(jobs)), d).best_ind
       /\ \A k \in 1..Len(jobs) :
             work[jobs[k].data_path].entries[PipeDirName(k)].config = jobs[k]

\* Some job of the run has raised.
Failed == \E n \in 1..Len(pipes_results) : pipes_results[n].exc

\* C12: no job is ever executed twice; once a job has raised, the run never
\* reaches log finalization or retention (no log save, no best directory,
\* no working directory deleted), it stays aborted once aborted, and the log
\* records and persisted configs written so far stay in place.
C12_FailedJobAbortsRun ==
    /\ [](/\ \A k \in 1..Len(jobs) :
               Cardinality({n \in 1..Len(pipes_results) :
                               pipes_results[n].pipe_conf = jobs[k]})
                  + (IF k \in DOMAIN running THEN 1 ELSE 0) <= 1
          /\ Failed
             => /\ pc \in {"pool", "ingest", "error"}
                /\ log_saved = 0
                /\ retained = 0
                /\ \A d \in Datasets : ~best[d].exists)
    /\ [][Failed
          => /\ pc = "error" => pc' = "error"
             /\ Len(log') >= Len(log)
             /\ SubSeq(log', 1, Len(log)) = log
             /\ \A d \in Datasets :
                   /\ work[d].exists => work'[d].exists
                   /\ \A f \in DOMAIN work[d].entries :
                         /\ f \in DOMAIN work'[d].entries
                         /\ work[d].entries[f].config # NoConf
                            => work'[d].entries[f].config
                                  = work[d].entries[f].config]_vars

\* The second of NumJobs jobs to end had raised; the run ingested the first
\* result, persisted its config and then aborted.
C12_Witness ==
    /\ pc = "error"
    /\ Len(pipes_results) = NumJobs
    /\ ~pipes_results[1].exc
    /\ pipes_results[2].exc
    /\ Len(log) = 1
    /\ \E d \in Datasets : \E f \in DOMAIN work[d].entries :
          work[d].entries[f].config # NoConf

\* C13: when both GPU modes are requested, construction fails with a
\* configuration error, whatever the other settings.
C13_ConflictingModesFail ==
    (args.use_all_gpus /\ args.use_multi_gpus # <<>>)
    => pc \in {"new", "config_error"}

\* C14: in CPU-only mode the plan has 'max_num_workers' =
\* min(requested, cpu_count) for every requested count, its pool never has
\* more workers than CPUs, and it has no GPU slots (tasks carry no GPU).
C14_CpuOnlyPlan ==
    (pc # "new" /\ args.multiprocessing /\ ~args.use_all_gpus
        /\ args.use_multi_gpus = <<>>)
    => /\ args.max_num_workers # None
          => /\ max_num_workers = Min(args.max_num_workers, cpu_count)
             /\ max_num_workers <= cpu_count
       /\ PoolSize(max_num_workers) <= cpu_count
       /\ available_gpu = NoneList
       /\ \A k \in 1..Len(tasks) : ~tasks[k].gpu /\ tasks[k].gpu_ind = None

\* A CPU-only plan whose requested worker count exceeded the CPU count is
\* running jobs.
C14_Witness ==
    /\ pc = "pool"
    /\ args.multiprocessing /\ ~args.use_all_gpus /\ args.use_multi_gpus = <<>>
    /\ args.max_num_workers # None
    /\ args.max_num_workers > cpu_count
    /\ max_num_workers = cpu_count
    /\ Cardinality(DOMAIN running) = cpu_count

\* The plan of a constructed manager was computed in 'use all GPUs' mode
\* from a positive or unset worker request.
AllGpusPlan ==
    /\ pc # "new"
    /\ args.multiprocessing
    /\ args.use_all_gpus
    /\ args.use_multi_gpus = <<>>
    /\ args.max_num_workers # 0

\* C15: a 'use all GPUs' plan (of a host with two CPUs or more) has as many
\* GPU slots as workers, and its slots are pairwise distinct.
C15_AllGpusSlotsMatchWorkers ==
    (AllGpusPlan /\ host.cpu >= 2)
    => /\ Len(available_gpu) = max_num_workers
       /\ \A a \in 1..Len(available_gpu) : \A b \in 1..Len(available_gpu) :
             a # b => available_gpu[a] # available_gpu[b]

\* C16: in 'use all GPUs' mode the pool of the run has
\* min(idle_gpu_count, floor(0.7 * cpu_count)) workers when no worker count
\* is requested and min(requested_workers, idle_gpu_count) when one is.
C16_AllGpusPoolSize ==
    (AllGpusPlan /\ pc = "pool")
    => PoolSize(max_num_workers)
          = IF args.max_num_workers = None
            THEN Min(Cardinality(host.idle), (7 * host.cpu) \div 10)
            ELSE Min(args.max_num_workers, Cardinality(host.idle))

\* The plan of a constructed manager was computed in 'explicit GPU list'
\* mode.
ExplicitPlan ==
    /\ pc # "new"
    /\ args.multiprocessing
    /\ ~args.use_all_gpus
    /\ args.use_multi_gpus # <<>>

\* The idle indices of the explicit list, in list order, and the number of
\* its busy indices.
ValidGpus == SelectSeqIn(args.use_multi_gpus, host.idle)

BusyCount == Len(args.use_multi_gpus) - Len(ValidGpus)

\* The plan the explicit mode computes from a worker request w.
ExplicitPlanFor(w) ==
    LET count == Min(IF w = None \/ w = 0 THEN Len(ValidGpus) ELSE w,
                     Len(ValidGpus))
    IN /\ max_num_workers = count
       /\ available_gpu = SubSeq(ValidGpus, 1, count)
       /\ Cardinality({n \in 1..Len(warnings) : warnings[n].kind = "busy"})
             = BusyCount
       /\ \A n \in 1..Len(warnings) :
             warnings[n].kind = "busy"
             => /\ warnings[n].ind \notin host.idle
                /\ \E m \in 1..Len(args.use_multi_gpus) :
                      args.use_multi_gpus[m] = warnings[n].ind

\* C17 as stated: in 'explicit GPU list' mode worker_count =
\* min(requested_workers or len(valid), len(valid)) with the worker count as
\* requested, gpu_slots is the first worker_count valid indices in list
\* order, and there is one warning per busy index.
C17_ExplicitPlanAsRequested ==
    ExplicitPlan => ExplicitPlanFor(args.max_num_workers)

\* C17, amended: the same with the requested worker count first clamped to
\* cpu_count.
C17_ExplicitPlanClamped ==
    ExplicitPlan
    => ExplicitPlanFor(IF args.max_num_workers # None
                          /\ args.max_num_workers > host.cpu
                       THEN host.cpu ELSE args.max_num_workers)

\* An explicit list of two indices, the second busy, was planned: one slot,
\* one worker, one warning, and the run has started.
C17_Witness ==
    /\ pc = "pool"
    /\ ExplicitPlan
    /\ Len(args.use_multi_gpus) = 2
    /\ args.use_multi_gpus[1] \in host.idle
    /\ args.use_multi_gpus[2] \notin host.idle
    /\ available_gpu = <<args.use_multi_gpus[1]>>
    /\ max_num_workers = 1
    /\ Len(warnings) >= 1

\* More is requested than the host has: more workers than CPUs, more
\* workers than idle GPUs in 'use all GPUs' mode, or a busy index in the
\* explicit list.
ExceedsAvailable ==
    \/ (args.max_num_workers # None /\ args.max_num_workers > host.cpu)
    \/ (args.use_all_gpus /\ args.max_num_workers # None
           /\ args.max_num_workers > Cardinality(host.idle))
    \/ (args.use_multi_gpus # <<>> /\ BusyCount > 0)

\* C18: a request that exceeds what is available (GPU modes not
\* conflicting, a positive or unset worker count, a host whose CPU share is
\* at least one worker) never makes planning or the run fail.
C18_ClampedRunDoesNotFail ==
    (/\ args.multiprocessing
     /\ ~(args.use_all_gpus /\ args.use_multi_gpus # <<>>)
     /\ args.max_num_workers # 0
     /\ host.cpu >= 2
     /\ ExceedsAvailable)
    => pc \notin {"error", "config_error"}

\* C19: a worker that has left a GPU job holds no device constraint: the
\* variable it set for the job is no longer in its environment.
C19_ConstraintClearedOnExit ==
    \A k \in DOMAIN exit_env : tasks[k].gpu => exit_env[k] = Unset

\* C20: after retention, the best directory of every dataset that produced
\* a result holds the shared asset of this run's working directory, whatever
\* the best directory held before.
C20_SharedAssetsMoved ==
    (pc = "done" /\ args.save_best)
    => \A d \in Datasets :
          JobsOf(d) # {}
          => /\ SharedAsset \in DOMAIN best[d].entries
             /\ best[d].entries[SharedAsset].model = 0

\* The retention of dataset d has completed: its working directory is gone
\* and its best directory holds the checkpoint recorded as best.
RetentionCompleted(d) ==
    /\ d \in ResNames(dataset_res)
    /\ ~work[d].exists
    /\ best[d].exists
    /\ PipeDirName(Stored(dataset_res, d).best_ind) \in DOMAIN best[d].entries

\* C21: a second invocation of the retention step, on datasets whose
\* retention has completed, leaves every best directory (and every working
\* directory) exactly as the first invocation left it: each of its steps
\* changes nothing, and it either ends or fails.
C21_SecondRetentionChangesNothing ==
    [][(pc = "done" \/ pc = "retain_again" \/ pc = "done_again")
       => /\ best' = best
          /\ work' = work
          /\ (pc' = "retain_again" \/ pc' = "done_again"
                 \/ pc' = "error")]_vars

\* The second invocation reached a dataset whose retention had completed and
\* failed on its missing working directory, the best directory still
\* holding the retained checkpoint.
C21_Witness ==
    /\ pc = "error"
    /\ log_saved = 1
    /\ retained = 0
    /\ Len(dataset_res) = 2
    /\ \A d \in Datasets : RetentionCompleted(d)

\* Every submitted job has ended and its result was taken by update_logger.
AllIngested ==
    /\ DOMAIN running = {}
    /\ next_task = Len(jobs)
    /\ Len(pipes_results) = Len(jobs)
    /\ i = Len(jobs)
    /\ Len(log) = Len(jobs)

\* A step moves or deletes an entry of a working directory, or changes a
\* best directory.
TouchesCheckpoints ==
    \/ best' # best
    \/ \E d \in Datasets :
          \/ (work[d].exists /\ ~work'[d].exists)
          \/ \E f \in DOMAIN work[d].entries : f \notin DOMAIN work'[d].entries

\* C22: retention has acted only in a run with save_best enabled whose jobs
\* have all ended and whose results were all ingested, and every step that
\* moves or deletes a checkpoint is taken in such a state.
C22_RetentionOnlyAfterAllIngested ==
    /\ []((retained > 0 \/ \E d \in Datasets : best[d].exists)
            => (args.save_best /\ AllIngested))
    /\ [][TouchesCheckpoints => (args.save_best /\ AllIngested)]_vars

\* The retention loop has processed the first of two datasets of a run of
\* NumJobs jobs: that dataset's working directory is gone, the other's is
\* still in place.
C22_Witness ==
    /\ pc = "retain"
    /\ args.save_best
    /\ Len(jobs) = NumJobs
    /\ Len(dataset_res) = 2
    /\ retained = 1
    /\ ~work[dataset_res[1].name].exists
    /\ work[dataset_res[2].name].exists

\* C23: the aggregate log is saved at most once; it has been saved only
\* after the last result was ingested, it has been saved exactly once
\* whenever retention may start or has started, and exactly once when the run
\* returns.
C23_LogFinalizedOnce ==
    /\ log_saved <= 1
    /\ log_saved = 1 => AllIngested
    /\ pc \in {"retain", "done"} => log_saved = 1
    /\ (retained > 0 \/ \E d \in Datasets : best[d].exists) => log_saved = 1
    /\ pc = "ingested" => log_saved = 0

\* The log of a run of NumJobs jobs was saved and retention has not started.
C23_Witness ==
    /\ pc = "retain"
    /\ Len(log) = NumJobs
    /\ log_saved = 1
    /\ args.save_best
    /\ retained = 0
    /\ \A d \in Datasets : ~best[d].exists

\* C25: update_logger has taken no result and written no record while a
\* submitted job is still waiting or executing, and every step that ingests
\* a result is taken when every submitted job has ended.
C25_NoIngestionBeforeJoin ==
    /\ []((i > 0 \/ Len(log) > 0 \/ pc \in {"ingest", "ingested"})
            => (/\ DOMAIN running = {}
                /\ next_task = Len(jobs)
                /\ Len(pipes_results) = Len(jobs)))
    /\ [][(i' # i \/ log' # log \/ dataset_res' # dataset_res)
            => (/\ DOMAIN running = {}
                /\ next_task = Len(jobs)
                /\ Len(pipes_results) = Len(jobs)
                /\ pipes_results' = pipes_results)]_vars

\* The first of NumJobs results is ingested, every job having ended, the
\* last of them by raising.
C25_Witness ==
    /\ pc = "ingest"
    /\ i = 1
    /\ Len(log) = 1
    /\ Len(pipes_results) = NumJobs
    /\ pipes_results[NumJobs].exc
    /\ DOMAIN running = {}

\* Job k has ended and its result is in the result sequence.
HasResult(k) ==
    \E n \in 1..Len(pipes_results) : pipes_results[n].pipe_conf = jobs[k]

\* The run has ingested every result, saved the log and completed
\* retention.
RunCompleted ==
    /\ pc = "done"
    /\ AllIngested
    /\ log_saved = 1
    /\ retained = Len(dataset_res)
    /\ \A d \in Datasets : JobsOf(d) # {} => (~work[d].exists /\ best[d].exists)

\* C26, the job that never ends: it holds one worker from the moment it
\* starts, every other submitted job is executed to its end, and the run
\* never ingests a result, saves the log or starts retention.
C26_HungJobBlocksRun ==
    /\ [](trainer.hangs # {}
            => (/\ pc \in {"new", "constructed", "pool"}
                /\ i = 0
                /\ log_saved = 0
                /\ retained = 0
                /\ Cardinality(DOMAIN running \cap trainer.hangs) <= 1))
    /\ [][\A h \in trainer.hangs :
             h \in DOMAIN running => h \in DOMAIN running']_vars
    /\ <>[](\A k \in 1..Len(jobs) :
               IF k \in trainer.hangs
               THEN k \in DOMAIN running
               ELSE HasResult(k))

\* C26, the converse: when every job ends without error the run eventually
\* ingests all results, saves the log and completes retention.
C26_TerminatingJobsCompleteRun ==
    <>(trainer.hangs = {} => RunCompleted)

\* C26: both halves.
C26_HangBlocksElseRunCompletes ==
    C26_HungJobBlocksRun /\ C26_TerminatingJobsCompleteRun

\* The log records of the results of dataset d that update_logger has
\* taken in full.
IngestedOf(d) == {r \in 1..i : log[r].dataset = d}

\* C27: the best index recorded for a dataset is None, and then no ingested
\* result of the dataset scored above -1 and the best_score is still -1, or
\* it is the 1-based index given to an ingested result of that dataset whose
\* target score is the stored best_score.
C27_BestIndexNamesIngestedResult ==
    \A n \in 1..Len(dataset_res) :
        LET e == dataset_res[n]
        IN IF e.best_ind = None
           THEN /\ e.best_score = -1
                /\ \A r \in IngestedOf(e.name) :
                      TargetScore(log[r].pipe_res, target_metric) <= -1
           ELSE \E r \in IngestedOf(e.name) :
                   /\ log[r].pipe_ind = e.best_ind
                   /\ TargetScore(log[r].pipe_res, target_metric)
                         = e.best_score

\* Three results were ingested: the best of one dataset is the second
\* result, which replaced the first, and the other dataset, whose only result
\* scored -1, has no best index.
C27_Witness ==
    /\ i = 3
    /\ Len(dataset_res) = 2
    /\ log[1].dataset = log[2].dataset
    /\ TargetScore(log[1].pipe_res, target_metric) > -1
    /\ Stored(dataset_res, log[2].dataset).best_ind = 2
    /\ Stored(dataset_res, log[3].dataset).best_ind = None

\* (best_score, best index) of a dataset after a result scoring s was taken
\* at position n (0-based), given the pair stored before.
AfterResult(old, s, n) ==
    IF s > old.best_score THEN [best_score |-> s, best_ind |-> n + 1]
    ELSE old

\* C28: once a result is ingested the target metric has a name; a name that
\* is set (given by the user, or fixed by the first ingestion) is never
\* changed; an unset name is fixed only by the ingestion of the first result,
\* to the first metric of that result's config; and every ingestion compares
\* and stores the value of that one metric.
C28_TargetMetricFixedOnce ==
    /\ [](i > 0 => target_metric # "None")
    /\ [][/\ target_metric # "None" => target_metric' = target_metric
          /\ target_metric' # target_metric
             => (/\ pc = "ingest"
                 /\ i = 0
                 /\ target_metric' = pipes_results[1].pipe_conf.metrics[1])
          /\ i' # i
             => LET res == pipes_results[i + 1]
                    d   == res.pipe_conf.data_path
                IN Stored(dataset_res', d)
                      = AfterResult(Stored(dataset_res, d),
                                    TargetScore(res.results, target_metric'),
                                    i)]_vars

\* A user gave the second metric of the configs as the target; two results
\* were ingested, the second better on the first metric only, and the first
\* is still the best.
C28_Witness ==
    /\ i = 2
    /\ target_metric = "f1"
    /\ jobs[1].metrics = <<"acc", "f1">>
    /\ log[2].pipe_res["valid"]["acc"] > log[1].pipe_res["valid"]["acc"]
    /\ log[2].pipe_res["valid"]["f1"] < log[1].pipe_res["valid"]["f1"]
    /\ "test" \notin DOMAIN log[1].pipe_res
    /\ "test" \notin DOMAIN log[2].pipe_res
    /\ Stored(dataset_res, "A").best_ind = 1

\* C29: the score an ingestion ranks a result by is the target metric of the
\* result's 'test' split when the result has a 'test' split, and of its
\* 'valid' split only when it has none.
C29_TestSplitRanksWhenPresent ==
    [][i' # i
       => LET res == pipes_results[i + 1]
              d   == res.pipe_conf.data_path
              s   == IF "test" \in DOMAIN res.results
                     THEN res.results["test"][target_metric']
                     ELSE res.results["valid"][target_metric']
          IN Stored(dataset_res', d)
                = AfterResult(Stored(dataset_res, d), s, i)]_vars

\* The first result had both splits, scoring lower on 'test' than on
\* 'valid', and the stored best_score is its 'test' value; the second had
\* only 'valid' and replaced it.
C29_Witness ==
    /\ i = 2
    /\ DOMAIN log[1].pipe_res = {"test", "valid"}
    /\ log[1].pipe_res["test"][target_metric] = 0
    /\ log[1].pipe_res["valid"][target_metric] = 1
    /\ DOMAIN log[2].pipe_res = {"valid"}
    /\ log[2].pipe_res["valid"][target_metric] = 1
    /\ Stored(dataset_res, "A") = [best_score |-> 1, best_ind |-> 2]

\* C30: while update_logger runs and when it has returned, every result it
\* has taken has exactly one log record, and the config of its job is in the
\* job's per-job directory (pipe_<submission index + 1> of its dataset) if
\* and only if the run is not a cross-validation run.
C30_OneRecordAndConfigUnlessCrossVal ==
    (pc \in {"ingest", "ingested"})
    => \A n \in 1..i :
          LET conf == pipes_results[n].pipe_conf
              dir  == work[conf.data_path].entries
              own  == PipeDirName(SubmissionIndex(conf.pipe) + 1)
          IN /\ Cardinality({r \in 1..Len(log) :
                                log[r].pipe_conf = conf.pipe}) = 1
             /\ (~args.cross_val)
                   <=> (own \in DOMAIN dir /\ dir[own].config = conf)

\* The training options of a config require a split that the data of its
\* dataset lacks: test_best with an empty 'test' split, validate_best or
\* val_every_n_epochs > 0 with an empty 'valid' split, or no train section
\* with an empty 'test' split.
RequiresMissingSplit(config) ==
    IF config.train.has
    THEN \/ (config.train.test_best = "true" /\ "test" \notin data[config.data_path])
         \/ ((config.train.validate_best = "true"
                 \/ config.train.val_every_n_epochs > 0)
               /\ "valid" \notin data[config.data_path])
    ELSE "test" \notin data[config.data_path]

\* C24: with the pre-flight test enabled, a run one of whose configs
\* requires a split its dataset lacks is never constructed: construction
\* ends in a configuration error and no job is ever scheduled.
C24_MissingSplitFailsConstruction ==
    (/\ pc # "new"
     /\ args.do_test
     /\ \E k \in 1..Len(jobs) : RequiresMissingSplit(jobs[k]))
    => (pc = "config_error" /\ tasks = <<>> /\ next_task = 0)

\* C31: with save_best off, update_logger records no best state for any
\* dataset, no best directory is ever created, and from the end of ingestion
\* to the return of run() no step changes the checkpoint tree: every per-job
\* directory and shared asset stays where it was.
C31_NothingRetainedWhenDisabled ==
    /\ [](~args.save_best
            => (/\ dataset_res = <<>>
                /\ retained = 0
                /\ \A d \in Datasets : ~best[d].exists))
    /\ [][(~args.save_best /\ (pc = "ingested" \/ pc = "retain"
                                  \/ pc = "done"))
            => (work' = work /\ best' = best)]_vars

\* A run of NumJobs jobs with save_best off has returned: the log was
\* saved, and every job's directory, with its config, and the shared asset of
\* its dataset are still in the working directory.
C31_Witness ==
    /\ pc = "done"
    /\ ~args.save_best
    /\ Len(jobs) = NumJobs
    /\ log_saved = 1
    /\ \A k \in 1..Len(jobs) :
          /\ PipeDirName(k) \in DOMAIN work[jobs[k].data_path].entries
          /\ work[jobs[k].data_path].entries[PipeDirName(k)].config # NoConf
          /\ SharedAsset \in DOMAIN work[jobs[k].data_path].entries

\* C32: the indices update_logger gives the results of a run are pairwise
\* distinct (no two log records, hence no two per-job directory names, share
\* one), and no per-job config file is written twice: a step writes a config
\* only where none was written before.
C32_DirectoryKeysNeverReused ==
    /\ [](\A a \in 1..Len(log) : \A b \in 1..Len(log) :
             a # b => (/\ log[a].pipe_ind # log[b].pipe_ind
                       /\ PipeDirName(log[a].pipe_ind)
                             # PipeDirName(log[b].pipe_ind)))
    /\ [][\A d \in Datasets :
             \A f \in DOMAIN work[d].entries \cap DOMAIN work'[d].entries :
                work'[d].entries[f].config # work[d].entries[f].config
                => work[d].entries[f].config = NoConf]_vars

\* The NumJobs results of one dataset were ingested in an order other than
\* the submission order, and NumJobs per-job directories hold a config.
C32_Witness ==
    /\ pc = "ingested"
    /\ i = NumJobs
    /\ \A k \in 1..NumJobs : jobs[k].data_path = "A"
    /\ log[1].pipe_conf # jobs[1].pipe
    /\ Cardinality({f \in DOMAIN work["A"].entries :
                       work["A"].entries[f].config # NoConf}) = NumJobs

\* C33: when the plan has no GPU slots (available_gpu is None or empty),
\* every job a worker has started runs with CUDA_VISIBLE_DEVICES == '',
\* set before its training starts.
C33_CpuJobsSeeNoGpu ==
    (available_gpu = NoneList \/ available_gpu = <<>>)
    => \A k \in DOMAIN running : running[k] = NoDevice

\* Two jobs run at the same time on a host whose GPUs are all idle, under a
\* plan without GPU slots, and neither sees a device.
C33_Witness ==
    /\ pc = "pool"
    /\ available_gpu = NoneList
    /\ host.idle = GpuIds
    /\ Cardinality(DOMAIN running) = 2
    /\ \A k \in DOMAIN running : running[k] = NoDevice /\ ~tasks[k].gpu

\* C34: every task run() schedules in GPU mode carries gpu = True and an
\* integer index in 0 .. len(available_gpu) - 1, and no scheduled job ends by
\* the guard's exception; a task with gpu = True and an index that is not an
\* integer never starts training: its worker sets no device, writes no
\* checkpoint, and its entry in the results is the exception.
C34_GpuIndexIsIntegerInRange ==
    /\ available_gpu # NoneList
       => /\ \A k \in 1..Len(tasks) :
                /\ tasks[k].gpu
                /\ tasks[k].gpu_ind \in 0..(Len(available_gpu) - 1)
          /\ \A n \in 1..Len(pipes_results) : ~pipes_results[n].exc
    /\ \A k \in 1..Len(tasks) :
          (tasks[k].gpu /\ tasks[k].gpu_ind \notin Nat)
          => /\ k \notin DOMAIN running
             /\ k \notin DOMAIN exit_env
             /\ PipeDirName(k) \notin DOMAIN work[jobs[k].data_path].entries
             /\ next_task >= k
                => \E n \in 1..Len(pipes_results) :
                      /\ pipes_results[n].pipe_conf = jobs[k]
                      /\ pipes_results[n].exc

\* train_pipe was called for the first config with gpu = True and the index
\* None, and for the second with a valid index: the first call raised, the
\* second job runs on its device.
C34_Witness ==
    /\ pc = "pool"
    /\ Len(tasks) = 2
    /\ tasks[1].gpu /\ tasks[1].gpu_ind = None
    /\ tasks[2].gpu /\ tasks[2].gpu_ind = 1
    /\ next_task = 2
    /\ Len(pipes_results) = 1
    /\ pipes_results[1].exc
    /\ DOMAIN running = {2}
    /\ running[2] = 1

\* The first config of the pre-flight test passes the checks of its own
\* iterator and train section.
FirstConfigPasses ==
    /\ jobs[1].iterator = "basic"
    /\ ~RequiresMissingSplit(jobs[1])
    /\ jobs[1].train.has
       => (jobs[1].train.test_best # "absent"
              /\ jobs[1].train.validate_best # "absent")

\* C35: after a pre-flight test the recorded composition is the set of
\* non-empty splits of the first config's dataset, whatever the later
\* dataset holds; and when the first config passes, the later config raises a
\* configuration error if and only if a split of its dataset is empty that
\* is non-empty in the first dataset.
C35_CompositionFixedByFirstDataset ==
    (pc # "new" /\ args.do_test)
    => LET first == data[jobs[1].data_path]
           later == data[jobs[2].data_path]
       IN /\ dataset_composition = [dtype \in Splits |-> dtype \in first]
          /\ FirstConfigPasses
             => /\ pc # "init_error"
                /\ (pc = "config_error")
                      <=> (\E dtype \in Splits :
                              dtype \in first /\ dtype \notin later)

\* A manager was constructed with the test over two datasets, the second
\* with a 'valid' split the first lacks: no error, and 'valid' is still
\* recorded as empty.
C35_Witness ==
    /\ pc = "constructed"
    /\ args.do_test
    /\ jobs[1].data_path # jobs[2].data_path
    /\ data[jobs[1].data_path] = {"train", "test"}
    /\ data[jobs[2].data_path] = Splits
    /\ ~dataset_composition["valid"]
    /\ dataset_composition["test"]
====
